---- MODULE Spec2Model ----
(***************************************************************************)
(* A model of rust-typemap (src/src/lib.rs): TypeMap, a map keyed by tag   *)
(* types, holding one boxed value of any type per key type.                *)
(*                                                                         *)
(* The map is  data: HashMap<TypeId, Box<Any>>.  A Box<Any> is modelled as *)
(* the pair of the TypeId of the boxed value's type and the value; the     *)
(* HashMap is a function whose domain is the set of keys present.          *)
(* HashMap::insert / remove / find / find_mut / contains_key / len / clear *)
(* are those of the standard library the crate was written against         *)
(* (MutableMap::insert returns true iff the key did NOT already exist,     *)
(* MutableMap::remove returns true iff the key was present).               *)
(***************************************************************************)
EXTENDS Integers, FiniteSets, TLC

(* ---- bounds ---------------------------------------------------------- *)

\* the value type V1 has the values 1..MaxVal
MaxVal == 2

(* ---- tag types, value types, associations ---------------------------- *)

\* the tag types (key types) of the program
Tags == {"K1", "K2", "K3"}

\* the value types of the program
ValueTypes == {"V1", "V2"}

\* impl Assoc<V> for K {}: the declared pairs.  K1 and K3 share the value
\* type V1, K2 and K3 the value type V2; K3 implements Assoc for two value
\* types, which the trait's type parameter allows.
Assoc == {<<"K1", "V1">>, <<"K2", "V2">>, <<"K3", "V1">>, <<"K3", "V2">>}

\* the values of a value type: V1 has the values 1..MaxVal, V2 is a unit
\* struct as Value is
ValuesOf(V) == IF V = "V1" THEN 1..MaxVal ELSE {1}

\* the instances of a tag type, passed as the _key argument: K1 is a tag
\* with two instances, K2 and K3 are unit structs
KeyValuesOf(K) == IF K = "K1" THEN {0, 1} ELSE {0}

\* TypeId::of::<T>(): a token per type, distinct for distinct types
TypeIdOf_collide(T) ==
  CASE T = "K1" -> 101 [] T = "K2" -> 101 [] T = "K3" -> 103
    [] T = "V1" -> 201 [] T = "V2" -> 202

TypeIdOf(T) ==
  CASE T = "K1" -> 101 [] T = "K2" -> 102 [] T = "K3" -> 103
    [] T = "V1" -> 201 [] T = "V2" -> 202

(* ---- Option, Box<Any> ------------------------------------------------ *)

None == [tag |-> "None"]

Some(v) == [tag |-> "Some", val |-> v]

\* Option<&mut V>: the borrow points at the entry under key ref
SomeMut(ref, v) == [tag |-> "Some", val |-> v, ref |-> ref]

IsSome(o) == o.tag = "Some"

\* box val as Box<Any>: the carrier keeps the TypeId of the value's type
BoxAny(V, val) == [tid |-> TypeIdOf(V), val |-> val]

\* downcast_ref::<V> / downcast_mut::<V>: Some iff the carrier holds a V
downcast_unchecked(b, V) == Some(b.val)

downcast(b, V) == IF b.tid = TypeIdOf(V) THEN Some(b.val) ELSE None

(* ---- HashMap<TypeId, Box<Any>> --------------------------------------- *)

HashMap_new == [x \in {} |-> x]

\* MutableMap::insert: replaces the value, true iff the key was not present
HashMap_insert(m, key, b) ==
  [map |-> [x \in (DOMAIN m) \cup {key} |-> IF x = key THEN b ELSE m[x]],
   ret |-> key \notin DOMAIN m]

\* MutableMap::remove: true iff the key was present
HashMap_remove(m, key) ==
  [map |-> [x \in (DOMAIN m) \ {key} |-> m[x]],
   ret |-> key \in DOMAIN m]

HashMap_find(m, key) == IF key \in DOMAIN m THEN Some(m[key]) ELSE None

HashMap_contains_key(m, key) == key \in DOMAIN m

HashMap_len(m) == Cardinality(DOMAIN m)

HashMap_clear(m) == [x \in {} |-> x]

(* ---- TypeMap --------------------------------------------------------- *)

\* TypeMap::new
new_with_entry ==
  HashMap_insert(HashMap_new, TypeIdOf("K2"), BoxAny("V2", 1)).map

new == HashMap_new

\* TypeMap::insert::<K, V>(_key, val)
insert_keep_old(d, K, V, key, val) ==
  IF TypeIdOf(K) \in DOMAIN d
    THEN [map |-> d, ret |-> FALSE]
    ELSE HashMap_insert(d, TypeIdOf(K), BoxAny(V, val))

insert_wrong_key(d, K, V, key, val) ==
  HashMap_insert(d, TypeIdOf(V), BoxAny(V, val))

insert_by_pair(d, K, V, key, val) ==
  HashMap_insert(d, TypeIdOf(K) + TypeIdOf(V), BoxAny(V, val))

insert_ret_prior(d, K, V, key, val) ==
  [map |-> HashMap_insert(d, TypeIdOf(K), BoxAny(V, val)).map,
   ret |-> TypeIdOf(K) \in DOMAIN d]

insert(d, K, V, key, val) == HashMap_insert(d, TypeIdOf(K), BoxAny(V, val))

\* TypeMap::find::<K, V>(_key)
find_by_key_value(d, K, V, key) ==
  LET o == HashMap_find(d, TypeIdOf(K) + key)
  IN  IF IsSome(o) THEN downcast(o.val, V) ELSE None

find(d, K, V, key) ==
  LET o == HashMap_find(d, TypeIdOf(K))
  IN  IF IsSome(o) THEN downcast(o.val, V) ELSE None

\* TypeMap::find_mut::<K, V>(_key): the borrow, when present, points into
\* the entry under TypeId::of::<K>()
find_mut_detached(d, K, V, key) ==
  LET o == HashMap_find(d, TypeIdOf(K))
  IN  IF IsSome(o) /\ IsSome(downcast(o.val, V))
        THEN SomeMut(0, o.val.val) ELSE None

find_mut(d, K, V, key) ==
  LET o == HashMap_find(d, TypeIdOf(K))
  IN  IF IsSome(o) /\ IsSome(downcast(o.val, V))
        THEN SomeMut(TypeIdOf(K), o.val.val) ELSE None

\* *borrow = v for a borrow returned by find_mut
WriteThrough_all(d, ref, v) ==
  IF ref \in DOMAIN d THEN [x \in DOMAIN d |-> [d[x] EXCEPT !.val = v]] ELSE d

WriteThrough(d, ref, v) ==
  IF ref \in DOMAIN d THEN [d EXCEPT ![ref].val = v] ELSE d

\* TypeMap::contains::<K, V>(_key)
contains(d, K, V, key) == HashMap_contains_key(d, TypeIdOf(K))

\* TypeMap::remove::<K, V>(_key)
remove_ret_false(d, K, V, key) ==
  [map |-> HashMap_remove(d, TypeIdOf(K)).map, ret |-> FALSE]

remove_keep(d, K, V, key) ==
  [map |-> d, ret |-> TypeIdOf(K) \in DOMAIN d]

remove_wrong_key(d, K, V, key) == HashMap_remove(d, TypeIdOf(V))

remove_missing_clears(d, K, V, key) ==
  IF TypeIdOf(K) \in DOMAIN d
    THEN HashMap_remove(d, TypeIdOf(K))
    ELSE [map |-> HashMap_new, ret |-> FALSE]

remove(d, K, V, key) == HashMap_remove(d, TypeIdOf(K))

\* Collection::len
len(d) == HashMap_len(d)

\* Mutable::clear
clear_keep_one(d) ==
  IF DOMAIN d = {} THEN d
  ELSE LET k == CHOOSE x \in DOMAIN d : TRUE IN [x \in {k} |-> d[x]]

clear(d) == HashMap_clear(d)

(* ---- state ----------------------------------------------------------- *)

VARIABLES
  data,    \* TypeMap.data
  last,    \* the most recent call: operation, arguments, result, map before
  prev,    \* the call before it
  live,    \* tags inserted and not removed or cleared since
  fresh    \* a map made by TypeMap::new() when data was last cleared (or
           \* created), given the same calls as data since

vars == <<data, last, prev, live, fresh>>

\* a call record; fret is the result of the same call on fresh
Call(op, K, V, key, arg, ret, fret) ==
  [op |-> op, k |-> K, vt |-> V, key |-> key, arg |-> arg, ret |-> ret,
   fret |-> fret, pre |-> data]

Init ==
  /\ data = new
  /\ fresh = new
  /\ live = {}
  /\ last = [op |-> "new", k |-> "-", vt |-> "-", key |-> 0, arg |-> 0,
             ret |-> 0, fret |-> 0, pre |-> new]
  /\ prev = last

(* ---- operations ------------------------------------------------------ *)

Insert(K, V, key, v) ==
  /\ data' = insert(data, K, V, key, v).map
  /\ fresh' = insert(fresh, K, V, key, v).map
  /\ last' = Call("insert", K, V, key, v, insert(data, K, V, key, v).ret,
                  insert(fresh, K, V, key, v).ret)
  /\ prev' = last
  /\ live' = live \cup {K}

Find(K, V, key) ==
  /\ last' = Call("find", K, V, key, 0, find(data, K, V, key),
                  find(fresh, K, V, key))
  /\ prev' = last
  /\ UNCHANGED <<data, fresh, live>>

\* find_mut whose borrow is only read
FindMut(K, V, key) ==
  /\ last' = Call("find_mut", K, V, key, 0, find_mut(data, K, V, key),
                  find_mut(fresh, K, V, key))
  /\ prev' = last
  /\ UNCHANGED <<data, fresh, live>>

\* find_mut whose borrow, being present, is assigned v
FindMutWrite(K, V, key, v) ==
  /\ IsSome(find_mut(data, K, V, key))
  /\ data' = WriteThrough(data, find_mut(data, K, V, key).ref, v)
  /\ fresh' = IF IsSome(find_mut(fresh, K, V, key))
                THEN WriteThrough(fresh, find_mut(fresh, K, V, key).ref, v)
                ELSE fresh
  /\ last' = Call("find_mut_write", K, V, key, v, find_mut(data, K, V, key),
                  find_mut(fresh, K, V, key))
  /\ prev' = last
  /\ UNCHANGED live

Contains(K, V, key) ==
  /\ last' = Call("contains", K, V, key, 0, contains(data, K, V, key),
                  contains(fresh, K, V, key))
  /\ prev' = last
  /\ UNCHANGED <<data, fresh, live>>

Remove(K, V, key) ==
  /\ data' = remove(data, K, V, key).map
  /\ fresh' = remove(fresh, K, V, key).map
  /\ last' = Call("remove", K, V, key, 0, remove(data, K, V, key).ret,
                  remove(fresh, K, V, key).ret)
  /\ prev' = last
  /\ live' = live \ {K}

Len ==
  /\ last' = Call("len", "-", "-", 0, 0, len(data), len(fresh))
  /\ prev' = last
  /\ UNCHANGED <<data, fresh, live>>

Clear ==
  /\ data' = clear(data)
  /\ fresh' = new
  /\ last' = Call("clear", "-", "-", 0, 0, 0, 0)
  /\ prev' = last
  /\ live' = {}

Next ==
  \/ \E p \in Assoc : \E key \in KeyValuesOf(p[1]) : \E v \in ValuesOf(p[2]) :
       Insert(p[1], p[2], key, v)
  \/ \E p \in Assoc : \E key \in KeyValuesOf(p[1]) : Find(p[1], p[2], key)
  \/ \E p \in Assoc : \E key \in KeyValuesOf(p[1]) : FindMut(p[1], p[2], key)
  \/ \E p \in Assoc : \E key \in KeyValuesOf(p[1]) : \E v \in ValuesOf(p[2]) :
       FindMutWrite(p[1], p[2], key, v)
  \/ \E p \in Assoc : \E key \in KeyValuesOf(p[1]) : Contains(p[1], p[2], key)
  \/ \E p \in Assoc : \E key \in KeyValuesOf(p[1]) : Remove(p[1], p[2], key)
  \/ Len
  \/ Clear

Spec == Init /\ [][Next]_vars

(* ---- helpers for the properties -------------------------------------- *)

\* an instance of tag type K, for calls whose key argument is not at issue
AKey(K) == CHOOSE key \in KeyValuesOf(K) : TRUE

\* the value types a tag is associated with
TypesOf(K) == {V \in ValueTypes : <<K, V>> \in Assoc}

\* the entry under the Key Identity of K: None, or Some carrier
EntryOf(d, K) == HashMap_find(d, TypeIdOf(K))

\* the insert and remove calls on tag K, as call records
CallsOn(K) ==
  UNION {{[op |-> "insert", k |-> K, vt |-> V, key |-> AKey(K), arg |-> v] :
            v \in ValuesOf(V)} : V \in TypesOf(K)}
  \cup {[op |-> "remove", k |-> K, vt |-> V, key |-> AKey(K), arg |-> 0] :
     V \in TypesOf(K)}

\* the result and the map of an insert or remove call record c made on d
Do(d, c) ==
  IF c.op = "insert"
    THEN insert(d, c.k, c.vt, c.key, c.arg)
    ELSE remove(d, c.k, c.vt, c.key)

KeyedOps == {"insert", "find", "find_mut", "find_mut_write", "contains",
             "remove"}

(* ---- C1 -------------------------------------------------------------- *)

\* C1: immediately after insert(K, v), find(K) as the inserted value type
\* is present and equal to v, and contains(K) is true, whatever the map
\* held before.
C1_InsertFindRoundTrip ==
  last.op = "insert" =>
    /\ find(data, last.k, last.vt, last.key) = Some(last.arg)
    /\ contains(data, last.k, last.vt, last.key)

\* an insert over an entry that held another value, in a map with other keys
C1_Witness ==
  /\ last.op = "insert"
  /\ IsSome(find(last.pre, last.k, last.vt, last.key))
  /\ find(last.pre, last.k, last.vt, last.key) # Some(last.arg)
  /\ len(data) > 1

(* ---- C2 -------------------------------------------------------------- *)

\* C2: immediately after remove(K), contains(K) is false and find(K) is
\* absent for every value type of K, in particular when the call before was
\* insert(K, v).
C2_AbsentAfterRemove ==
  last.op = "remove" =>
    /\ ~contains(data, last.k, last.vt, last.key)
    /\ \A V \in TypesOf(last.k) : find(data, last.k, V, last.key) = None

\* insert(K, v) directly followed by remove(K)
C2_Witness ==
  /\ last.op = "remove"
  /\ prev.op = "insert"
  /\ prev.k = last.k
  /\ contains(last.pre, last.k, last.vt, last.key)

(* ---- C3 -------------------------------------------------------------- *)

\* C3 as stated: the result of insert(K, v) is true exactly when an entry
\* under K existed immediately before the call.
C3_InsertReturnsPriorPresence ==
  last.op = "insert" =>
    (last.ret = TRUE <=> contains(last.pre, last.k, last.vt, last.key))

\* C3 amended: the result of insert(K, v) is true exactly when NO entry
\* under K existed immediately before the call (the key is new), and false
\* when an entry existed and was replaced.
C3_InsertReturnsNewKey ==
  last.op = "insert" =>
    (last.ret = TRUE <=> ~contains(last.pre, last.k, last.vt, last.key))

\* an insert that replaced an entry and returned false
C3_Witness ==
  /\ last.op = "insert"
  /\ contains(last.pre, last.k, last.vt, last.key)
  /\ last.ret = FALSE

(* ---- C4 -------------------------------------------------------------- *)

\* C4: the result of remove(K) is true exactly when an entry under K was
\* present immediately before the call, and that entry is gone afterwards.
C4_RemoveReturnsRemoved ==
  last.op = "remove" =>
    /\ last.ret = TRUE <=> contains(last.pre, last.k, last.vt, last.key)
    /\ ~contains(data, last.k, last.vt, last.key)

\* a remove that found and removed an entry
C4_Witness ==
  /\ last.op = "remove"
  /\ last.ret = TRUE
  /\ contains(last.pre, last.k, last.vt, last.key)
  /\ len(data) > 0

(* ---- C5 -------------------------------------------------------------- *)

\* C5: remove(K) with no entry under K returns false and leaves the map as
\* it was (same keys, same values, same size); a second consecutive
\* remove(K) returns false and changes nothing.
C5_RemoveMissingNoOp ==
  /\ (last.op = "remove" /\ ~contains(last.pre, last.k, last.vt, last.key)) =>
        /\ last.ret = FALSE
        /\ data = last.pre
        /\ len(data) = len(last.pre)
  /\ (last.op = "remove" /\ prev.op = "remove" /\ prev.k = last.k) =>
        /\ last.ret = FALSE
        /\ data = last.pre

\* the second of two consecutive remove(K), the first having removed an
\* entry, in a map that still holds other keys
C5_Witness ==
  /\ last.op = "remove"
  /\ prev.op = "remove"
  /\ prev.k = last.k
  /\ prev.ret = TRUE
  /\ len(data) > 0

(* ---- C6 -------------------------------------------------------------- *)

\* C6: after insert(K, v1) directly followed by insert(K, v2), find(K) is
\* v2, the entry under K is the carrier of v2 and no other entry changed (so
\* v1 is held nowhere it was not held before), and the size is the same as
\* after the first insert.
C6_Overwrite ==
  (last.op = "insert" /\ prev.op = "insert" /\ prev.k = last.k) =>
    /\ find(data, last.k, last.vt, last.key) = Some(last.arg)
    /\ \A V \in TypesOf(last.k) :
         find(data, last.k, V, last.key) =
           downcast(BoxAny(last.vt, last.arg), V)
    /\ \A p \in Assoc :
         p[1] # last.k =>
           find(data, p[1], p[2], AKey(p[1])) =
             find(prev.pre, p[1], p[2], AKey(p[1]))
    /\ len(data) = len(last.pre)

\* two consecutive inserts under one key with different values
C6_Witness ==
  /\ last.op = "insert"
  /\ prev.op = "insert"
  /\ prev.k = last.k
  /\ prev.vt = last.vt
  /\ prev.arg # last.arg
  /\ find(last.pre, last.k, last.vt, last.key) = Some(prev.arg)

(* ---- C7 -------------------------------------------------------------- *)

\* C7: an insert, remove, find, find_mut (with or without a write through
\* the borrow) or contains on K1 leaves find(K2) and contains(K2) as they
\* were, for every tag K2 other than K1.
C7_DisjointKeysIndependent ==
  last.op \in KeyedOps =>
    \A p \in Assoc :
      p[1] # last.k =>
        /\ find(data, p[1], p[2], AKey(p[1])) =
             find(last.pre, p[1], p[2], AKey(p[1]))
        /\ contains(data, p[1], p[2], AKey(p[1])) =
             contains(last.pre, p[1], p[2], AKey(p[1]))

\* a write through find_mut(K1) while K3, holding the same value type,
\* holds another value
C7_Witness ==
  /\ last.op = "find_mut_write"
  /\ last.k = "K1"
  /\ last.ret.val # last.arg
  /\ IsSome(find(data, "K3", "V1", AKey("K3")))
  /\ find(data, "K3", "V1", AKey("K3")) # find(data, "K1", "V1", AKey("K1"))

(* ---- C8 -------------------------------------------------------------- *)

\* C8: after clear() the size is 0, contains(K) is false for every tag and
\* the map is the one TypeMap::new() makes; every call made since the last
\* clear returns what it returns on a map made by TypeMap::new() and given
\* the same calls, and leaves the same map.
C8_ClearTotality ==
  /\ last.op = "clear" =>
        /\ len(data) = 0
        /\ \A p \in Assoc : ~contains(data, p[1], p[2], AKey(p[1]))
        /\ data = new
  /\ data = fresh
  /\ last.ret = last.fret

\* an insert right after a clear of a map of several entries, under a key
\* the cleared map held: it reports a new key, as on a new map
C8_Witness ==
  /\ last.op = "insert"
  /\ prev.op = "clear"
  /\ len(prev.pre) > 1
  /\ contains(prev.pre, last.k, last.vt, last.key)
  /\ last.ret = TRUE
  /\ len(data) = 1

(* ---- C9 -------------------------------------------------------------- *)

\* C9: in every reachable state size() is the number of tags inserted and
\* not removed or cleared since, which is the number of tags K for which
\* contains(K) is true.
C9_SizeAccounting ==
  /\ len(data) = Cardinality(live)
  /\ len(data) =
       Cardinality({K \in Tags :
                      \E V \in TypesOf(K) : contains(data, K, V, AKey(K))})

\* two entries left after a remove took one of three away
C9_Witness ==
  /\ last.op = "remove"
  /\ last.ret = TRUE
  /\ len(data) = 2

(* ---- C10 ------------------------------------------------------------- *)

\* C10: after find_mut(K) returned a present borrow and the caller assigned
\* v' through it, find(K) is v', contains(K) is true and the size is what it
\* was.
C10_MutationVisible ==
  last.op = "find_mut_write" =>
    /\ find(data, last.k, last.vt, last.key) = Some(last.arg)
    /\ contains(data, last.k, last.vt, last.key)
    /\ len(data) = len(last.pre)

\* a write through the borrow that changed the stored value
C10_Witness ==
  /\ last.op = "find_mut_write"
  /\ IsSome(last.ret)
  /\ last.ret.val # last.arg
  /\ find(last.pre, last.k, last.vt, last.key) = Some(last.ret.val)

(* ---- C11 ------------------------------------------------------------- *)

\* C11: no operation depends on the instance passed as the key, only on
\* its type: in every reachable state each of insert, find, find_mut,
\* contains and remove gives the same result and the same map for any two
\* instances k1, k2 of a tag type; after insert(k1, v), find(k2) is v,
\* contains(k2) is true and remove(k2) removes that entry; and a find called
\* right after an insert under the same tag returns the inserted value
\* whichever instances the two calls were given.
C11_TagValueIrrelevant ==
  /\ \A p \in Assoc : \A k1, k2 \in KeyValuesOf(p[1]) :
       /\ find(data, p[1], p[2], k1) = find(data, p[1], p[2], k2)
       /\ find_mut(data, p[1], p[2], k1) = find_mut(data, p[1], p[2], k2)
       /\ contains(data, p[1], p[2], k1) = contains(data, p[1], p[2], k2)
       /\ remove(data, p[1], p[2], k1) = remove(data, p[1], p[2], k2)
       /\ \A v \in ValuesOf(p[2]) :
            insert(data, p[1], p[2], k1, v) = insert(data, p[1], p[2], k2, v)
  /\ last.op = "insert" =>
       \A k2 \in KeyValuesOf(last.k) :
         /\ find(data, last.k, last.vt, k2) = Some(last.arg)
         /\ contains(data, last.k, last.vt, k2)
         /\ remove(data, last.k, last.vt, k2).ret = TRUE
         /\ ~contains(remove(data, last.k, last.vt, k2).map,
                      last.k, last.vt, last.key)
  /\ (last.op = "find" /\ prev.op = "insert" /\ prev.k = last.k
        /\ prev.vt = last.vt) =>
       last.ret = Some(prev.arg)

\* insert(k1, v) directly followed by find(k2), k1 and k2 being different
\* instances of one tag type
C11_Witness ==
  /\ last.op = "find"
  /\ prev.op = "insert"
  /\ prev.k = last.k
  /\ prev.vt = last.vt
  /\ prev.key # last.key
  /\ last.ret = Some(prev.arg)

(* ---- C12 ------------------------------------------------------------- *)

\* C12: the map TypeMap::new() makes has size 0, and on it, for every tag,
\* find and find_mut are absent, contains is false and remove returns false
\* and leaves the map as it is; the first call made on a new map, when it is
\* one of these, returns so and leaves the map empty.
C12_NewIsEmpty ==
  /\ last.op = "new" =>
       /\ len(data) = 0
       /\ \A p \in Assoc : \A key \in KeyValuesOf(p[1]) :
            /\ find(data, p[1], p[2], key) = None
            /\ find_mut(data, p[1], p[2], key) = None
            /\ ~contains(data, p[1], p[2], key)
            /\ remove(data, p[1], p[2], key).ret = FALSE
            /\ remove(data, p[1], p[2], key).map = data
  /\ (prev.op = "new" /\ last.op \in {"find", "find_mut"}) =>
       (last.ret = None /\ data = last.pre /\ len(data) = 0)
  /\ (prev.op = "new" /\ last.op \in {"contains", "remove"}) =>
       (last.ret = FALSE /\ data = last.pre /\ len(data) = 0)
  /\ (prev.op = "new" /\ last.op = "len") => last.ret = 0

\* remove as the first call on a new map
C12_Witness ==
  /\ prev.op = "new"
  /\ last.op = "remove"
  /\ last.ret = FALSE
  /\ last.pre = new
  /\ data = new

(* ---- C13 ------------------------------------------------------------- *)

\* C13: in every reachable state, for every tag K and every value type V
\* that K is associated with, find(K) as V and find_mut(K) as V are present
\* exactly when contains(K) is true.
C13_PresentEntriesDowncast ==
  \A p \in Assoc : \A key \in KeyValuesOf(p[1]) :
    /\ IsSome(find(data, p[1], p[2], key)) <=>
         contains(data, p[1], p[2], key)
    /\ IsSome(find_mut(data, p[1], p[2], key)) <=>
         contains(data, p[1], p[2], key)

(* ---- C14 ------------------------------------------------------------- *)

\* C14: when the entry under K holds a value of another type than the one
\* requested, find(K) and find_mut(K) return absent and leave the map as it
\* was; in no reachable state does find or find_mut as V yield a value
\* whose carrier is not a V.
C14_FailClosedOnMismatch ==
  /\ \A p \in Assoc : \A key \in KeyValuesOf(p[1]) :
       (/\ contains(data, p[1], p[2], key)
        /\ data[TypeIdOf(p[1])].tid # TypeIdOf(p[2])) =>
         /\ find(data, p[1], p[2], key) = None
         /\ find_mut(data, p[1], p[2], key) = None
  /\ (/\ last.op \in {"find", "find_mut"}
      /\ contains(last.pre, last.k, last.vt, last.key)
      /\ last.pre[TypeIdOf(last.k)].tid # TypeIdOf(last.vt)) =>
       (last.ret = None /\ data = last.pre)

\* find_mut(K3) as V2 directly after insert(K3, v) as V1
C14_Witness ==
  /\ last.op = "find_mut"
  /\ last.k = "K3"
  /\ last.vt = "V2"
  /\ prev.op = "insert"
  /\ prev.k = "K3"
  /\ prev.vt = "V1"
  /\ last.ret = None
  /\ data = last.pre

(* ---- C15 ------------------------------------------------------------- *)

\* C15: in every step, the entry of a tag K changes only from absent to
\* present(v) by insert(K, v), from present to present(v') by insert(K, v')
\* or by a write of v' through find_mut(K), from present to absent by
\* remove(K), or to absent by clear(); insert(K, v) leaves present(v),
\* remove(K) and clear() leave absent, and find, find_mut without a write,
\* contains and len leave the map as it was.
C15_PerKeyStateMachine ==
  [][/\ \A K \in Tags :
          LET a == EntryOf(data, K)
              b == EntryOf(data', K)
          IN  a # b =>
                \/ /\ last'.op = "insert"
                   /\ last'.k = K
                   /\ b = Some(BoxAny(last'.vt, last'.arg))
                \/ /\ last'.op = "find_mut_write"
                   /\ last'.k = K
                   /\ IsSome(a)
                   /\ b = Some([a.val EXCEPT !.val = last'.arg])
                \/ /\ last'.op = "remove"
                   /\ last'.k = K
                   /\ IsSome(a)
                   /\ b = None
                \/ /\ last'.op = "clear"
                   /\ b = None
     /\ last'.op = "insert" =>
          EntryOf(data', last'.k) = Some(BoxAny(last'.vt, last'.arg))
     /\ last'.op = "remove" => EntryOf(data', last'.k) = None
     /\ last'.op = "clear" => \A K \in Tags : EntryOf(data', K) = None
     /\ last'.op \in {"find", "find_mut", "contains", "len"} => data' = data
    ]_vars

\* a clear of several entries, one of them just written through find_mut
C15_Witness ==
  /\ last.op = "clear"
  /\ prev.op = "find_mut_write"
  /\ prev.ret.val # prev.arg
  /\ len(last.pre) > 1
  /\ \A K \in Tags : EntryOf(data, K) = None

(* ---- C16 ------------------------------------------------------------- *)

\* C16: in every reachable state every entry is under the Key Identity of
\* a tag, one per tag at most, whatever value type it was inserted as; at
\* most one value type of a tag finds a value; and an insert under a tag
\* that holds an entry, also one inserted as another value type, replaces
\* it and leaves the size as it was.
C16_OneEntryPerKey ==
  /\ DOMAIN data \subseteq {TypeIdOf(K) : K \in Tags}
  /\ len(data) <= Cardinality(Tags)
  /\ \A K \in Tags :
       Cardinality({V \in TypesOf(K) : IsSome(find(data, K, V, AKey(K)))}) <= 1
  /\ (last.op = "insert" /\ prev.op = "insert" /\ prev.k = last.k) =>
       /\ len(data) = len(last.pre)
       /\ \A V \in TypesOf(last.k) :
            V # last.vt => find(data, last.k, V, last.key) = None
       /\ find(data, last.k, last.vt, last.key) = Some(last.arg)
  /\ (last.op = "insert" /\ contains(last.pre, last.k, last.vt, last.key)) =>
       len(data) = len(last.pre)

\* insert(K3, v) as V1 directly followed by insert(K3, v') as V2, in a map
\* with another entry
C16_Witness ==
  /\ last.op = "insert"
  /\ prev.op = "insert"
  /\ prev.k = last.k
  /\ prev.vt = "V1"
  /\ last.vt = "V2"
  /\ len(data) = 2
  /\ len(last.pre) = 2

(* ---- C17 ------------------------------------------------------------- *)

\* C17: in every reachable state, an insert or remove on one tag and an
\* insert or remove on another tag give the same map and each the same
\* result in either order; and when the two most recent calls were such a
\* pair, the map and their results are those of the opposite order.
C17_DistinctKeysCommute ==
  /\ \A pk \in {<<"K1", "K2">>, <<"K1", "K3">>, <<"K2", "K3">>} :
       \A c1 \in CallsOn(pk[1]) : \A c2 \in CallsOn(pk[2]) :
         LET r1  == Do(data, c1)
             r12 == Do(r1.map, c2)
             r2  == Do(data, c2)
             r21 == Do(r2.map, c1)
         IN  /\ r12.map = r21.map
             /\ len(r12.map) = len(r21.map)
             /\ r1.ret = r21.ret
             /\ r2.ret = r12.ret
  /\ (/\ prev.op \in {"insert", "remove"}
      /\ last.op \in {"insert", "remove"}
      /\ prev.k # last.k) =>
       LET r2  == Do(prev.pre, last)
           r21 == Do(r2.map, prev)
       IN  /\ data = r21.map
           /\ last.ret = r2.ret
           /\ prev.ret = r21.ret

\* insert(K, v) directly followed by a remove that took another tag's
\* entry away
C17_Witness ==
  /\ prev.op = "insert"
  /\ last.op = "remove"
  /\ prev.k # last.k
  /\ last.ret = TRUE
  /\ prev.ret = TRUE
  /\ data = Do(Do(prev.pre, last).map, prev).map

====
